---- MODULE Spec2Model ----
(***************************************************************************)
(* A model of the FallingBlocks game (FallingBlocks.py, Pieces.py).        *)
(*                                                                         *)
(* State: the grid, the current and the next piece, the statistics, the    *)
(* game-over flag and the intervals scheduled with arcade for _down.       *)
(* Every handler (_down, on_key_press) runs to completion and is one       *)
(* action.  Rows and columns are numbered from 0 as in the source; the     *)
(* sequences that hold them are indexed from 1.                            *)
(*                                                                         *)
(* The board is scaled down: the source has ROWS = 20 and COLUMNS = 10     *)
(* (FallingBlocks.py lines 33-34); every other definition is written in    *)
(* terms of ROWS and COLUMNS exactly as the source writes it.              *)
(***************************************************************************)
EXTENDS Integers, Sequences, FiniteSets, TLC

\* ------------------------------------------------------------------ bounds
ROWS == 4
COLUMNS == 4
\* _down is not delivered any more once a run has cleared this many lines
MaxLines == 1
\* Piece.random draws among the first NumShapes entries of possible_pieces
NumShapes == 3

\* SpecPlacement: the grids have at most MaxBlocks BLOCK cells, the anchors lie at
\* most Margin rows and columns outside the grid
MaxBlocks == 1
Margin == 2

\* SpecPiece: the calls of the same mutator in a row
MaxRun == 4

\* --------------------------------------------------------------- constants
LINES_PER_LEVEL == 10
SCORING == <<0, 10, 25, 75, 300>>

E == "EMPTY"
B == "BLOCK"

Max(a, b) == IF a >= b THEN a ELSE b

\* ------------------------------------------------------------------ pieces
possible_pieces == <<"I", "O", "J", "L", "S", "T", "Z">>

Shapes == {possible_pieces[k] : k \in 1..NumShapes}

\* The frames of each shape: frame, then row of the frame (row 0 first), then column
Positions ==
  [s \in {possible_pieces[k] : k \in 1..Len(possible_pieces)} |->
    CASE s = "I" -> << << <<E,E,E,E>>, <<E,E,E,E>>, <<B,B,B,B>>, <<E,E,E,E>> >>,
                       << <<E,E,B,E>>, <<E,E,B,E>>, <<E,E,B,E>>, <<E,E,B,E>> >> >>
      [] s = "O" -> << << <<E,E,E,E>>, <<E,B,B,E>>, <<E,B,B,E>>, <<E,E,E,E>> >> >>
      [] s = "J" -> << << <<E,E,E>>, <<B,B,B>>, <<E,E,B>> >>,
                       << <<E,B,E>>, <<E,B,E>>, <<B,B,E>> >>,
                       << <<B,E,E>>, <<B,B,B>>, <<E,E,E>> >>,
                       << <<E,B,B>>, <<E,B,E>>, <<E,B,E>> >> >>
      [] s = "L" -> << << <<E,E,E>>, <<B,B,B>>, <<B,E,E>> >>,
                       << <<B,B,E>>, <<E,B,E>>, <<E,B,E>> >>,
                       << <<E,E,B>>, <<B,B,B>>, <<E,E,E>> >>,
                       << <<E,B,E>>, <<E,B,E>>, <<E,B,B>> >> >>
      [] s = "S" -> << << <<E,E,E>>, <<E,B,B>>, <<B,B,E>> >>,
                       << <<E,B,E>>, <<E,B,B>>, <<E,E,B>> >> >>
      [] s = "T" -> << << <<E,E,E>>, <<B,B,B>>, <<E,B,E>> >>,
                       << <<E,B,E>>, <<B,B,E>>, <<E,B,E>> >>,
                       << <<E,B,E>>, <<B,B,B>>, <<E,E,E>> >>,
                       << <<E,B,E>>, <<E,B,B>>, <<E,B,E>> >> >>
      [] s = "Z" -> << << <<E,E,E>>, <<B,B,E>>, <<E,B,B>> >>,
                       << <<E,E,B>>, <<E,B,B>>, <<E,B,E>> >> >> ]

\* Location(row, column)
Location(r, c) == [row |-> r, column |-> c]

\* Piece.__init__: the position index starts at 0, the location is the one given
Piece(s, loc) == [shape |-> s, position_index |-> 0, location |-> loc]

frames(p) == Len(Positions[p.shape])

rotate_right(p) == [p EXCEPT !.position_index = (p.position_index + 1) % frames(p)]

\* rotate_left without the modulo
rotate_left_no_wrap(p) == [p EXCEPT !.position_index = p.position_index - 1]

rotate_left(p) == [p EXCEPT !.position_index = (p.position_index - 1) % frames(p)]

move_right(p) == [p EXCEPT !.location.column = p.location.column + 1]

move_left(p) == [p EXCEPT !.location.column = p.location.column - 1]

move_down(p) == [p EXCEPT !.location.row = p.location.row - 1]

move_up(p) == [p EXCEPT !.location.row = p.location.row + 1]

position(p) == Positions[p.shape][p.position_index + 1]

\* The BLOCK cells of every frame in the order the two loops of grid_locations
\* visit them (row by row, column by column), relative to the anchor
FrameCells ==
  [s \in DOMAIN Positions |->
    [i \in 1..Len(Positions[s]) |->
      LET f == Positions[s][i]
          n == Len(f)
          m == Len(f[1])
          all == [k \in 1..(n * m) |-> Location((k - 1) \div m, (k - 1) % m)]
      IN SelectSeq(all, LAMBDA l : f[l.row + 1][l.column + 1] = B)]]

grid_locations(p) ==
  LET cells == FrameCells[p.shape][p.position_index + 1]
  IN [k \in 1..Len(cells) |->
        Location(cells[k].row + p.location.row, cells[k].column + p.location.column)]

\* ----------------------------------------------------------------- session
VARIABLES
  grid,        \* self._grid: ROWS rows (row 0 first) of COLUMNS cells
  piece,       \* self._piece
  next_piece,  \* self._next_piece
  level,       \* self._level
  lines,       \* self._lines
  score,       \* self._score
  gameover,    \* self._gameover
  timers,      \* the intervals (in tenths of a second) arcade has scheduled for _down
  raised,      \* an exception left a handler (the SCORING index out of range)
  start,       \* the Location object of FallingBlocks.START_LOCATION: its value now,
               \* and which of self._piece, self._next_piece have it as their _location
  last         \* history: what the last handler did (see Did)

vars == <<grid, piece, next_piece, level, lines, score, gameover, timers, raised, start, last>>

START_LOCATION == Location(ROWS - 2, COLUMNS \div 2 - 2)

\* max(1 - level * .1, 0.1) seconds, in tenths of a second
interval(lv) == Max(10 - lv, 1)

\* arcade.schedule(self._down, interval) and arcade.unschedule(self._down)
schedule(ts, i) == Append(ts, i)

\* An unschedule that cancels nothing
unschedule_nothing(ts) == ts

unschedule(ts) == << >>

\* A Python list index: the position from 0, or -1 for IndexError
PyIndex(n, i) == IF i >= n \/ i < 0 - n THEN 0 - 1 ELSE IF i < 0 THEN i + n ELSE i

\* self._grid[row][column], or "IndexError"
GridGet(g, r, c) ==
  LET i == PyIndex(Len(g), r)
  IN IF i < 0 THEN "IndexError"
     ELSE LET j == PyIndex(Len(g[i + 1]), c)
          IN IF j < 0 THEN "IndexError" ELSE g[i + 1][j + 1]

\* The assignment with row and column exchanged
GridSetBlock_exchanged(g, r, c) ==
  LET i == PyIndex(Len(g), c)
  IN IF i < 0 THEN g
     ELSE LET j == PyIndex(Len(g[i + 1]), r)
          IN IF j < 0 THEN g ELSE [g EXCEPT ![i + 1][j + 1] = B]

\* self._grid[row][column] = Cell.BLOCK inside try/except IndexError: continue
GridSetBlock(g, r, c) ==
  LET i == PyIndex(Len(g), r)
  IN IF i < 0 THEN g
     ELSE LET j == PyIndex(Len(g[i + 1]), c)
          IN IF j < 0 THEN g ELSE [g EXCEPT ![i + 1][j + 1] = B]

\* The loop of _invalid over the locations from the k-th on
RECURSIVE InvalidFrom(_, _, _)
\* _invalid without its check of the right edge
InvalidFrom_no_right_edge(g, locs, k) ==
  IF k > Len(locs) THEN FALSE
  ELSE LET location == locs[k]
       IN IF location.row < 0 THEN TRUE
          ELSE IF location.column < 0 THEN TRUE
          ELSE LET cell == GridGet(g, location.row, location.column)
               IN IF cell = "IndexError" THEN InvalidFrom(g, locs, k + 1)
                  ELSE IF cell = B THEN TRUE
                  ELSE InvalidFrom(g, locs, k + 1)

InvalidFrom(g, locs, k) ==
  IF k > Len(locs) THEN FALSE
  ELSE LET location == locs[k]
       IN IF location.row < 0 THEN TRUE
          ELSE IF location.column < 0 THEN TRUE
          ELSE IF location.column >= COLUMNS THEN TRUE
          ELSE LET cell == GridGet(g, location.row, location.column)
               IN IF cell = "IndexError" THEN InvalidFrom(g, locs, k + 1)
                  ELSE IF cell = B THEN TRUE
                  ELSE InvalidFrom(g, locs, k + 1)

_invalid(g, p) == InvalidFrom(g, grid_locations(p), 1)

\* "Transfer pieces to grid": the loop of _down over the locations from the k-th on
RECURSIVE TransferFrom(_, _, _)
TransferFrom(g, locs, k) ==
  IF k > Len(locs) THEN g
  ELSE TransferFrom(GridSetBlock(g, locs[k].row, locs[k].column), locs, k + 1)

Transfer(g, p) == TransferFrom(g, grid_locations(p), 1)

\* The rows _check_lines finds full, bottom up (numbered from 0)
indices_for_removal(g) ==
  SelectSeq([k \in 1..Len(g) |-> k - 1],
            LAMBDA i : \A c \in 1..Len(g[i + 1]) : g[i + 1][c] = B)

\* del self._grid[index]; self._grid.append([Cell.EMPTY] * self.COLUMNS)
clear_row(g, index) ==
  Append(SubSeq(g, 1, index) \o SubSeq(g, index + 2, Len(g)), [c \in 1..COLUMNS |-> E])

\* for index in reversed(indices_for_removal): the k-th index and those before it
RECURSIVE RemoveFrom(_, _, _)
\* The removal going from the bottom up: the lowest index first
RemoveFrom_bottom_up(g, idx, k) ==
  IF k = 0 THEN g ELSE clear_row(RemoveFrom(g, idx, k - 1), idx[k])

RemoveFrom(g, idx, k) == IF k = 0 THEN g ELSE RemoveFrom(clear_row(g, idx[k]), idx, k - 1)

\* _check_lines multiplying by the level it has just computed
_check_lines_new_level(s) ==
  LET idx == indices_for_removal(s.grid)
      g1 == RemoveFrom(s.grid, idx, Len(idx))
      lines_cleared == Len(idx)
  IN IF lines_cleared = 0 THEN [s EXCEPT !.grid = g1]
     ELSE IF lines_cleared + 1 > Len(SCORING)
          THEN [s EXCEPT !.grid = g1, !.lines = s.lines + lines_cleared, !.raised = TRUE]
     ELSE LET l1 == s.lines + lines_cleared
              lv == (l1 \div LINES_PER_LEVEL) + 1
          IN [s EXCEPT !.grid = g1,
                       !.lines = l1,
                       !.score = s.score + SCORING[lines_cleared + 1] * lv,
                       !.level = lv,
                       !.timers = IF s.level # lv
                                  THEN schedule(unschedule(s.timers), interval(lv))
                                  ELSE s.timers]

\* _check_lines rescheduling at the interval of the level it had
_check_lines_old_interval(s) ==
  LET idx == indices_for_removal(s.grid)
      g1 == RemoveFrom(s.grid, idx, Len(idx))
      lines_cleared == Len(idx)
  IN IF lines_cleared = 0 THEN [s EXCEPT !.grid = g1]
     ELSE IF lines_cleared + 1 > Len(SCORING)
          THEN [s EXCEPT !.grid = g1, !.lines = s.lines + lines_cleared, !.raised = TRUE]
     ELSE LET l1 == s.lines + lines_cleared
              lv == (l1 \div LINES_PER_LEVEL) + 1
          IN [s EXCEPT !.grid = g1,
                       !.lines = l1,
                       !.score = s.score + SCORING[lines_cleared + 1] * s.level,
                       !.level = lv,
                       !.timers = IF s.level # lv
                                  THEN schedule(unschedule(s.timers), interval(s.level))
                                  ELSE s.timers]

\* _check_lines on the state s (a record of the fields it reads and writes)
_check_lines(s) ==
  LET idx == indices_for_removal(s.grid)
      g1 == RemoveFrom(s.grid, idx, Len(idx))
      lines_cleared == Len(idx)
  IN IF lines_cleared = 0 THEN [s EXCEPT !.grid = g1]
     ELSE IF lines_cleared + 1 > Len(SCORING)
          THEN [s EXCEPT !.grid = g1, !.lines = s.lines + lines_cleared, !.raised = TRUE]
     ELSE LET l1 == s.lines + lines_cleared
              lv == (l1 \div LINES_PER_LEVEL) + 1
          IN [s EXCEPT !.grid = g1,
                       !.lines = l1,
                       !.score = s.score + SCORING[lines_cleared + 1] * s.level,
                       !.level = lv,
                       !.timers = IF s.level # lv
                                  THEN schedule(unschedule(s.timers), interval(lv))
                                  ELSE s.timers]

\* History of the last handler: op names it ("init", "left", "right", "rotate_right",
\* "rotate_left", "straight_down", or for _down "fall" and "lock"); undone tells
\* whether it undid its last move; a lock also records the handler before it (prev),
\* the piece it transferred to the grid and the grid right after the transfer (baked)
NoPiece == [shape |-> "none", position_index |-> 0, location |-> Location(0, 0)]

Did(op, undone) ==
  [op |-> op, undone |-> undone, prev |-> "-", piece |-> NoPiece, baked |-> << >>]

Locked(prev, p, g) ==
  [op |-> "lock", undone |-> TRUE, prev |-> prev, piece |-> p, baked |-> g]

\* Piece.random(location) with the shape random.choice drew
random(s, location) == Piece(s, location)

\* A reference to a Location object: the object of START_LOCATION itself, or an
\* object of the holder's own.  Without the copy the pieces would be given the
\* object of START_LOCATION itself
deepcopy_none(ref) == ref

\* deepcopy(self.START_LOCATION): a new object with the value of the one copied
deepcopy(ref) == "own"

\* START_LOCATION after __init__ (lines 52-53): each piece was given
\* deepcopy(self.START_LOCATION) as its location
StartObject ==
  [location |-> START_LOCATION,
   held |-> {h \in {"piece", "next_piece"} : deepcopy("START_LOCATION") = "START_LOCATION"}]

\* The mutators of Piece assign to the fields of self._piece._location in place: the
\* piece becomes p, and so does the location of whatever has the same Location object
Store(p) ==
  /\ piece' = p
  /\ start' = IF "piece" \in start.held THEN [start EXCEPT !.location = p.location]
               ELSE start
  /\ next_piece' = IF {"piece", "next_piece"} \subseteq start.held
                    THEN [next_piece EXCEPT !.location = p.location]
                    ELSE next_piece

Init ==
  /\ grid = [r \in 1..ROWS |-> [c \in 1..COLUMNS |-> E]]
  /\ \E s1 \in Shapes : piece = random(s1, START_LOCATION)
  /\ \E s2 \in Shapes : next_piece = random(s2, START_LOCATION)
  /\ level = 1
  /\ lines = 0
  /\ score = 0
  /\ gameover = FALSE
  /\ timers = schedule(<< >>, interval(1))
  /\ raised = FALSE
  /\ start = StartObject
  /\ last = Did("init", FALSE)

\* The value of the START_LOCATION object once the piece p has been stored
Anchor(p) == IF "piece" \in start.held THEN p.location ELSE start.location

\* self._piece = self._next_piece, once the piece p has been stored
Promoted(p) ==
  IF "next_piece" \in start.held THEN [next_piece EXCEPT !.location = Anchor(p)]
  ELSE next_piece

\* Lock with self._gameover assigned the outcome of the check on every lock
Lock_assigns_flag(undone, s) ==
  \E baked \in {Transfer(grid, undone)} :
    \E current \in {Promoted(undone)} :
      \E lost \in {_invalid(baked, current)} :
        \E after \in {_check_lines([grid |-> baked, lines |-> lines, score |-> score,
                                    level |-> level, raised |-> FALSE,
                                    timers |-> IF lost THEN unschedule(timers) ELSE timers])} :
          /\ piece' = current
          /\ next_piece' = random(s, Anchor(undone))
          /\ start' = [location |-> Anchor(undone),
                       held |-> {h \in {"piece"} : "next_piece" \in start.held}
                                \cup {h \in {"next_piece"} :
                                        deepcopy("START_LOCATION") = "START_LOCATION"}]
          /\ gameover' = lost
          /\ grid' = after.grid
          /\ lines' = after.lines
          /\ score' = after.score
          /\ level' = after.level
          /\ timers' = after.timers
          /\ raised' = after.raised
          /\ last' = Locked(last.op, undone, baked)

\* The locking branch of _down once the move down has been undone; s is the shape drawn.
\* (\E x \in {e} names the value of e, computed once.)
Lock(undone, s) ==
  \E baked \in {Transfer(grid, undone)} :
    \* _generate_pieces
    \E current \in {Promoted(undone)} :
      \E lost \in {_invalid(baked, current)} :
        \E after \in {_check_lines([grid |-> baked, lines |-> lines, score |-> score,
                                    level |-> level, raised |-> FALSE,
                                    timers |-> IF lost THEN unschedule(timers) ELSE timers])} :
          /\ piece' = current
          /\ next_piece' = random(s, Anchor(undone))
          /\ start' = [location |-> Anchor(undone),
                       held |-> {h \in {"piece"} : "next_piece" \in start.held}
                                \cup {h \in {"next_piece"} :
                                        deepcopy("START_LOCATION") = "START_LOCATION"}]
          /\ gameover' = IF lost THEN TRUE ELSE gameover
          /\ grid' = after.grid
          /\ lines' = after.lines
          /\ score' = after.score
          /\ level' = after.level
          /\ timers' = after.timers
          /\ raised' = after.raised
          /\ last' = Locked(last.op, undone, baked)

\* _down locking the piece as soon as it rests on something, without waiting a tick
_down_locks_on_landing ==
  /\ ~raised
  /\ timers # << >>
  /\ LET moved == move_down(piece)
     IN IF _invalid(grid, moved)
        THEN \E s \in Shapes : Lock(move_up(moved), s)
        ELSE IF _invalid(grid, move_down(moved))
        THEN \E s \in Shapes : Lock(moved, s)
        ELSE /\ Store(moved)
             /\ last' = Did("fall", FALSE)
             /\ UNCHANGED <<grid, level, lines, score, gameover, timers, raised>>

\* The scheduled call of _down(dt)
_down ==
  /\ ~raised
  /\ timers # << >>
  /\ LET moved == move_down(piece)
     IN IF _invalid(grid, moved)
        THEN \E s \in Shapes : Lock(move_up(moved), s)
        ELSE /\ Store(moved)
             /\ last' = Did("fall", FALSE)
             /\ UNCHANGED <<grid, level, lines, score, gameover, timers, raised>>

\* arcade.key symbols on_key_press tells apart
Keys == {"A", "LEFT", "D", "RIGHT", "S", "DOWN", "W", "UP", "SPACE"}

\* while True: move_down; if invalid: move_up; break
RECURSIVE straight_down(_, _)
\* The loop without the move_up that undoes the last move
straight_down_no_undo(g, p) ==
  LET moved == move_down(p)
  IN IF _invalid(g, moved) THEN moved ELSE straight_down(g, moved)

\* An if in place of the while: one move down, undone if invalid
straight_down_once(g, p) ==
  LET moved == move_down(p)
  IN IF _invalid(g, moved) THEN move_up(moved) ELSE moved

straight_down(g, p) ==
  LET moved == move_down(p)
  IN IF _invalid(g, moved) THEN move_up(moved) ELSE straight_down(g, moved)

\* A branch that keeps what the mutator did whether it is valid or not
Command_no_rollback(op, done, restored) ==
  /\ Store(done)
  /\ last' = Did(op, FALSE)

\* A branch of on_key_press: the piece after the mutator (done), or after the mutator
\* and the inverse the branch applies (restored) if done is invalid
Command(op, done, restored) ==
  \E bad \in {_invalid(grid, done)} :
    /\ Store(IF bad THEN restored ELSE done)
    /\ last' = Did(op, bad)

\* on_key_press undoing a rotation to the right with another rotation to the right
on_key_press_wrong_undo(symbol) ==
  /\ ~raised
  /\ IF symbol = "A" \/ symbol = "LEFT"
     THEN Command("left", move_left(piece), move_right(move_left(piece)))
     ELSE IF symbol = "D" \/ symbol = "RIGHT"
     THEN Command("right", move_right(piece), move_left(move_right(piece)))
     ELSE IF symbol = "S" \/ symbol = "DOWN"
     THEN Command("rotate_right", rotate_right(piece), rotate_right(rotate_right(piece)))
     ELSE IF symbol = "W" \/ symbol = "UP"
     THEN Command("rotate_left", rotate_left(piece), rotate_right(rotate_left(piece)))
     ELSE IF symbol = "SPACE"
     THEN Store(straight_down(grid, piece)) /\ last' = Did("straight_down", TRUE)
     ELSE UNCHANGED <<piece, next_piece, start, last>>
  /\ UNCHANGED <<grid, level, lines, score, gameover, timers, raised>>

\* on_key_press with W and UP lifting the piece by a row instead of rotating it
on_key_press_up_lifts(symbol) ==
  /\ ~raised
  /\ IF symbol = "A" \/ symbol = "LEFT"
     THEN Command("left", move_left(piece), move_right(move_left(piece)))
     ELSE IF symbol = "D" \/ symbol = "RIGHT"
     THEN Command("right", move_right(piece), move_left(move_right(piece)))
     ELSE IF symbol = "S" \/ symbol = "DOWN"
     THEN Command("rotate_right", rotate_right(piece), rotate_left(rotate_right(piece)))
     ELSE IF symbol = "W" \/ symbol = "UP"
     THEN Command("rotate_left", move_up(piece), move_down(move_up(piece)))
     ELSE IF symbol = "SPACE"
     THEN Store(straight_down(grid, piece)) /\ last' = Did("straight_down", TRUE)
     ELSE UNCHANGED <<piece, next_piece, start, last>>
  /\ UNCHANGED <<grid, level, lines, score, gameover, timers, raised>>

on_key_press(symbol) ==
  /\ ~raised
  /\ IF symbol = "A" \/ symbol = "LEFT"
     THEN Command("left", move_left(piece), move_right(move_left(piece)))
     ELSE IF symbol = "D" \/ symbol = "RIGHT"
     THEN Command("right", move_right(piece), move_left(move_right(piece)))
     ELSE IF symbol = "S" \/ symbol = "DOWN"
     THEN Command("rotate_right", rotate_right(piece), rotate_left(rotate_right(piece)))
     ELSE IF symbol = "W" \/ symbol = "UP"
     THEN Command("rotate_left", rotate_left(piece), rotate_right(rotate_left(piece)))
     ELSE IF symbol = "SPACE"
     THEN Store(straight_down(grid, piece)) /\ last' = Did("straight_down", TRUE)
     ELSE UNCHANGED <<piece, next_piece, start, last>>
  /\ UNCHANGED <<grid, level, lines, score, gameover, timers, raised>>

KeyPress == \E symbol \in Keys : on_key_press(symbol)

\* pyglet's clock calls _down while an interval is scheduled for it
Tick(cap) == lines < cap /\ _down

Next == Tick(MaxLines) \/ KeyPress

Spec == Init /\ [][Next]_vars

\* A game in which nine I pieces have each been dropped flat on the empty board and
\* cleared one line: the board is empty again, one more line changes the level
InitLate ==
  /\ grid = [r \in 1..ROWS |-> [c \in 1..COLUMNS |-> E]]
  /\ \E s1 \in Shapes : piece = random(s1, START_LOCATION)
  /\ \E s2 \in Shapes : next_piece = random(s2, START_LOCATION)
  /\ level = 1
  /\ lines = LINES_PER_LEVEL - 1
  /\ score = (LINES_PER_LEVEL - 1) * SCORING[2]
  /\ gameover = FALSE
  /\ timers = schedule(<< >>, interval(1))
  /\ raised = FALSE
  /\ start = StartObject
  /\ last = Locked("straight_down", [random("I", START_LOCATION) EXCEPT !.location.row = 0 - 2],
                   [r \in 1..ROWS |-> [c \in 1..COLUMNS |-> IF r = 1 THEN B ELSE E]])

NextLate == Tick(LINES_PER_LEVEL + MaxLines) \/ KeyPress

SpecLate == InitLate /\ [][NextLate]_vars

\* ------------------------------------------------------------ requirements
\* What the claims speak of, written from the frames alone, not from the handlers.

\* The locations a piece occupies
Occupied(p) ==
  LET f == Positions[p.shape][p.position_index + 1]
  IN {Location(r - 1 + p.location.row, c - 1 + p.location.column) :
        <<r, c>> \in {rc \in (1..Len(f)) \X (1..Len(f[1])) : f[rc[1]][rc[2]] = B}}

\* An occupied location that makes a placement invalid
BadLocation(g, l) ==
  \/ l.row < 0
  \/ l.column < 0
  \/ l.column >= COLUMNS
  \/ (l.row < ROWS /\ g[l.row + 1][l.column + 1] = B)

Collides(g, p) == \E l \in Occupied(p) : BadLocation(g, l)

\* The grid with the occupied locations that lie in it set to BLOCK
Baked(g, p) ==
  [r \in 1..ROWS |-> [c \in 1..COLUMNS |->
     IF Location(r - 1, c - 1) \in Occupied(p) THEN B ELSE g[r][c]]]

IsFull(row) == \A c \in 1..Len(row) : row[c] = B

\* The rows that are not full, in their order, then EMPTY rows up to ROWS
Cleared(g) ==
  LET kept == SelectSeq(g, LAMBDA row : ~IsFull(row))
  IN kept \o [k \in 1..(Len(g) - Len(kept)) |-> [c \in 1..COLUMNS |-> E]]

FullRows(g) == {r \in 1..Len(g) : IsFull(g[r])}

Lowered(p) == [p EXCEPT !.location.row = p.location.row - 1]

CommandOps == {"left", "right", "rotate_right", "rotate_left", "straight_down"}

TickOps == {"fall", "lock"}

Statistics == <<lines, score, level>>

\* ------------------------------------------------------------------ claims

\* C1: whenever the game-over flag is true no tick timer is pending (so that no tick
\* after game over can change the grid, the pieces, lines, score or level), also when
\* the tick that ends the game clears lines and changes the level.
C1_GameOverCancelsTimer == gameover => timers = << >>

\* C2: while the game-over flag is true every command is a no-op: the current piece,
\* the grid, the next piece and the statistics are the same before and after it.
C2_CommandsNoOpWhenGameOver ==
  [][(gameover /\ last'.op \in CommandOps)
       => UNCHANGED <<piece, grid, next_piece, lines, score, level>>]_vars

\* C3: on the tick that sets the game-over flag no row is removed from the grid (the
\* grid is the one right after baking) and lines, score and level are unchanged.
C3_NoLineClearOnGameOverTick ==
  [][(~gameover /\ gameover')
       => (grid' = Baked(grid, piece) /\ UNCHANGED Statistics)]_vars

\* C4: the game-over flag starts false; it becomes true exactly on a tick that locks
\* a piece and whose newly promoted current piece (the buffered next piece, at the
\* spawn anchor) is invalid on the grid right after baking; once true it stays true.
C4_GameOverLatch ==
  /\ ~gameover
  /\ [][/\ gameover => gameover'
        /\ (~gameover) =>
             (gameover' <=> /\ last'.op \in TickOps
                            /\ Collides(grid, Lowered(piece))
                            /\ next_piece.location = START_LOCATION
                            /\ next_piece.position_index = 0
                            /\ Collides(Baked(grid, piece), next_piece))]_vars

\* C4 witness: the state a game-ending tick leaves
C4_Witness ==
  /\ gameover
  /\ last.op = "lock"
  /\ piece.location = START_LOCATION
  /\ Collides(grid, piece)

\* ------------------------------------------------------------ placements
\* _invalid as a function of a grid and a placement: every shape and frame, anchors
\* up to Margin outside the grid, grids with at most MaxBlocks BLOCK cells.

Placements ==
  {[shape |-> possible_pieces[k], position_index |-> i, location |-> Location(r, c)] :
     <<k, i, r, c>> \in {t \in (1..Len(possible_pieces)) \X (0..3)
                                \X ((0 - Margin)..(ROWS + Margin - 1))
                                \X ((0 - Margin)..(COLUMNS + Margin - 1)) :
                          t[2] < Len(Positions[possible_pieces[t[1]]])}}

RECURSIVE BlockSets(_)
BlockSets(n) ==
  IF n = 0 THEN {{}}
  ELSE LET smaller == BlockSets(n - 1)
       IN smaller \cup {S \cup {cell} : S \in smaller, cell \in (1..ROWS) \X (1..COLUMNS)}

GridOf(S) == [r \in 1..ROWS |-> [c \in 1..COLUMNS |-> IF <<r, c>> \in S THEN B ELSE E]]

InitPlacement ==
  /\ \E S \in BlockSets(MaxBlocks) : grid = GridOf(S)
  /\ piece \in Placements
  /\ next_piece = random("I", START_LOCATION)
  /\ level = 1
  /\ lines = 0
  /\ score = 0
  /\ gameover = FALSE
  /\ timers = schedule(<< >>, interval(1))
  /\ raised = FALSE
  /\ start = StartObject
  /\ last = Did("init", FALSE)

\* A call of self._invalid(); the history keeps what it returned
AskInvalid ==
  /\ last.op = "init"
  /\ last' = Did(IF _invalid(grid, piece) THEN "invalid" ELSE "valid", FALSE)
  /\ UNCHANGED <<grid, piece, next_piece, level, lines, score, gameover, timers, raised, start>>

SpecPlacement == InitPlacement /\ [][AskInvalid]_vars

\* C5: for every grid and every placement the validity check reports invalid if and
\* only if some occupied location has row < 0, or column < 0, or column >= COLUMNS, or
\* lies in a row of the grid on a BLOCK cell; a location with row >= ROWS alone never
\* makes the placement invalid, and the check raises no error.
C5_InvalidIffBadLocation ==
  last.op \in {"valid", "invalid"} =>
    /\ (last.op = "invalid") <=>
         \E l \in Occupied(piece) :
           \/ l.row < 0
           \/ l.column < 0
           \/ l.column >= COLUMNS
           \/ (l.row >= 0 /\ l.row < ROWS /\ l.column >= 0 /\ l.column < COLUMNS
               /\ grid[l.row + 1][l.column + 1] = B)
    /\ (\A l \in Occupied(piece) : l.row >= ROWS /\ l.column >= 0 /\ l.column < COLUMNS)
         => last.op = "valid"
    /\ ~raised

\* C5 witness: a placement found valid that reaches above the grid and into it, on a
\* grid that holds a BLOCK
C5_Witness ==
  /\ last.op = "valid"
  /\ \E l \in Occupied(piece) : l.row >= ROWS
  /\ \E l \in Occupied(piece) : l.row < ROWS
  /\ \E r \in 1..ROWS : \E c \in 1..COLUMNS : grid[r][c] = B

\* The piece after the mutator of a command
Mutated(op, p) ==
  CASE op = "left" -> [p EXCEPT !.location.column = p.location.column - 1]
    [] op = "right" -> [p EXCEPT !.location.column = p.location.column + 1]
    [] op = "rotate_right" ->
         [p EXCEPT !.position_index = (p.position_index + 1) % Len(Positions[p.shape])]
    [] op = "rotate_left" ->
         [p EXCEPT !.position_index = (p.position_index - 1) % Len(Positions[p.shape])]

\* C6: MoveLeft, MoveRight, RotateRight or RotateLeft in a valid Playing state: if the
\* placement after the mutator is invalid the piece is the same as before the command,
\* otherwise it is exactly the mutator's result; no error is raised.
C6_CommandAppliesOrRollsBack ==
  [][(/\ ~gameover
      /\ ~Collides(grid, piece)
      /\ last'.op \in {"left", "right", "rotate_right", "rotate_left"})
       => /\ piece' = IF Collides(grid, Mutated(last'.op, piece))
                      THEN piece
                      ELSE Mutated(last'.op, piece)
          /\ ~raised']_vars

\* C6 witness: a rotation to the right of a four-frame piece rolled back while playing
C6_Witness ==
  /\ ~gameover
  /\ last.op = "rotate_right"
  /\ last.undone
  /\ Len(Positions[piece.shape]) = 4
  /\ ~Collides(grid, piece)
  /\ Collides(grid, Mutated("rotate_right", piece))

\* C7: HardDrop in a valid Playing state ends with the piece at the lowest valid row
\* of its straight descent: the final placement is valid, the placement one row lower
\* is invalid, every row passed through was valid, the column and the rotation index
\* are unchanged.  An O piece at the spawn anchor on the empty grid ends on rows 0-1,
\* columns COLUMNS \div 2 - 1 and COLUMNS \div 2 (4-5 on the 10x20 board).
C7_HardDropLowestValidRow ==
  [][(~gameover /\ ~Collides(grid, piece) /\ last'.op = "straight_down")
       => /\ piece'.shape = piece.shape
          /\ piece'.position_index = piece.position_index
          /\ piece'.location.column = piece.location.column
          /\ piece'.location.row <= piece.location.row
          /\ \A r \in piece'.location.row..piece.location.row :
               ~Collides(grid, [piece EXCEPT !.location.row = r])
          /\ Collides(grid, Lowered(piece'))
          /\ (/\ piece = [shape |-> "O", position_index |-> 0, location |-> START_LOCATION]
              /\ \A r \in 1..ROWS : \A c \in 1..COLUMNS : grid[r][c] = E)
               => Occupied(piece') =
                    {Location(r, c) : r \in {0, 1},
                                      c \in {COLUMNS \div 2 - 1, COLUMNS \div 2}}]_vars

\* C7 witness: after a HardDrop the O piece lies on rows 0-1 of the empty grid, in the
\* spawn column
C7_Witness ==
  /\ ~gameover
  /\ last.op = "straight_down"
  /\ piece.shape = "O"
  /\ piece.location.column = START_LOCATION.column
  /\ \A r \in 1..ROWS : \A c \in 1..COLUMNS : grid[r][c] = E
  /\ Occupied(piece) = {Location(r, c) : r \in {0, 1},
                                         c \in {COLUMNS \div 2 - 1, COLUMNS \div 2}}

\* C8: the grid, the next piece, lines, score, level, the game-over flag and the tick
\* timer change only on a tick that locks a piece: every command and every tick whose
\* moved-down placement is valid leaves them unchanged and alters only the current
\* piece's anchor or rotation index; such a tick lowers the anchor by exactly one row.
C8_OnlyLockingTickChangesSession ==
  [][(\/ last'.op \in CommandOps
      \/ (last'.op \in TickOps /\ ~Collides(grid, Lowered(piece))))
       => /\ UNCHANGED <<grid, next_piece, lines, score, level, gameover, timers>>
          /\ piece'.shape = piece.shape
          /\ (last'.op \in TickOps) => piece' = Lowered(piece)]_vars

\* C8 witness: a tick has lowered a piece above a grid that holds locked cells
C8_Witness ==
  /\ last.op = "fall"
  /\ ~gameover
  /\ piece.location.row < START_LOCATION.row
  /\ \E r \in 1..ROWS : \E c \in 1..COLUMNS : grid[r][c] = B

\* C9: after a HardDrop in a Playing state, a tick delivered next locks the dropped
\* piece: its cells are baked into the grid where HardDrop left it and the buffered
\* next piece becomes the current piece.
C9_TickAfterHardDropLocks ==
  [][(~gameover /\ last.op = "straight_down" /\ last'.op \in TickOps)
       => /\ last'.op = "lock"
          /\ last'.piece = piece
          /\ last'.baked = Baked(grid, piece)
          /\ grid' = Cleared(Baked(grid, piece))
          /\ piece' = next_piece]_vars

\* C9 witness: a tick right after a HardDrop has locked the piece, which dropped at
\* least one row
C9_Witness ==
  /\ last.op = "lock"
  /\ last.prev = "straight_down"
  /\ last.piece.location.row < START_LOCATION.row
  /\ ~gameover

\* The cells in which two grids differ
Changed(g, h) ==
  {Location(r - 1, c - 1) : <<r, c>> \in {rc \in (1..ROWS) \X (1..COLUMNS) :
                                           g[rc[1]][rc[2]] # h[rc[1]][rc[2]]}}

\* C10: on a locking tick, after the move down is undone and before line-clear, the
\* grid cells that changed are exactly the piece's occupied locations with row in
\* [0, ROWS), each set to BLOCK; locations with row >= ROWS are dropped without error;
\* baking never writes at a negative row or at a column outside [0, COLUMNS).
C10_ChangedCellsAreOccupiedCells ==
  [][(last'.op = "lock")
       => /\ last'.piece = piece
          /\ \A l \in Occupied(piece) : l.row >= 0 /\ l.column >= 0 /\ l.column < COLUMNS
          /\ last'.baked = Baked(grid, piece)
          /\ Changed(grid, last'.baked) = {l \in Occupied(piece) : l.row < ROWS}
          /\ \A l \in Changed(grid, last'.baked) : last'.baked[l.row + 1][l.column + 1] = B
          /\ ~raised']_vars

\* C10 witness: a tick has locked a piece that reached above the grid: some of its
\* locations were written, the others dropped
C10_Witness ==
  /\ last.op = "lock"
  /\ \E l \in Occupied(last.piece) : l.row >= ROWS
  /\ \E l \in Occupied(last.piece) : l.row < ROWS /\ last.baked[l.row + 1][l.column + 1] = B
  /\ ~raised

\* A tick delivered after game over has locked a piece
LockAfterGameOver ==
  /\ gameover
  /\ last.op = "lock"
  /\ ~Collides(last.baked, piece)

\* ------------------------------------------------------------ line clears
\* _check_lines as a function of the grid and the statistics: every grid of ROWS rows
\* of COLUMNS cells, in a game that has cleared StartLines lines one at a time.

\* self._lines before the pass: a new game, one line before the level changes, and
\* right after it has changed
StartLines == {0, LINES_PER_LEVEL - 1, LINES_PER_LEVEL}

InitLineClear ==
  /\ grid \in [1..ROWS -> [1..COLUMNS -> {E, B}]]
  /\ piece = random("I", START_LOCATION)
  /\ next_piece = random("I", START_LOCATION)
  /\ lines \in StartLines
  /\ level = (lines \div LINES_PER_LEVEL) + 1
  /\ score = lines * SCORING[2]
  /\ gameover = FALSE
  /\ timers = schedule(<< >>, interval(level))
  /\ raised = FALSE
  /\ start = StartObject
  /\ last = Did("init", FALSE)

\* A call of self._check_lines(); the history keeps the grid it was called on
CheckLines ==
  /\ last.op = "init"
  /\ \E after \in {_check_lines([grid |-> grid, lines |-> lines, score |-> score,
                                  level |-> level, raised |-> raised, timers |-> timers])} :
       /\ grid' = after.grid
       /\ lines' = after.lines
       /\ score' = after.score
       /\ level' = after.level
       /\ timers' = after.timers
       /\ raised' = after.raised
  /\ last' = [Did("check_lines", FALSE) EXCEPT !.baked = grid]
  /\ UNCHANGED <<piece, next_piece, gameover, start>>

SpecLineClear == InitLineClear /\ [][CheckLines]_vars

EmptyRow == [c \in 1..COLUMNS |-> E]

\* C11: line-clear on any grid with the set F of full rows yields a grid of ROWS rows
\* of COLUMNS cells: the rows that were not full, unaltered and in their order from
\* the bottom, then |F| EMPTY rows at the top; every full row is removed exactly once.
C11_LineClearKeepsOtherRows ==
  [][(last'.op = "check_lines")
       => /\ Len(grid') = ROWS
          /\ \A r \in 1..ROWS : Len(grid'[r]) = COLUMNS
          /\ \A r \in 1..ROWS : \A c \in 1..COLUMNS : grid'[r][c] \in {E, B}
          /\ grid' = Cleared(grid)
          /\ \A r \in 1..ROWS :
               /\ r <= ROWS - Cardinality(FullRows(grid)) => ~IsFull(grid'[r])
               /\ r > ROWS - Cardinality(FullRows(grid)) => grid'[r] = EmptyRow
          /\ \A r \in (1..ROWS) \ FullRows(grid) :
               grid'[r - Cardinality({f \in FullRows(grid) : f < r})] = grid[r]]_vars

\* C11 witness: rows 0 and 2 were full, rows 1 and 3 were not, were not EMPTY and
\* differed; they are now rows 0 and 1, under two EMPTY rows
C11_Witness ==
  /\ last.op = "check_lines"
  /\ FullRows(last.baked) = {1, 3}
  /\ last.baked[2] # last.baked[4]
  /\ last.baked[2] # EmptyRow
  /\ last.baked[4] # EmptyRow
  /\ grid = <<last.baked[2], last.baked[4], EmptyRow, EmptyRow>>

\* C12: a line-clear pass that removes n > 0 rows adds n to lines and SCORING[n] * L
\* to the score, L being the level before the pass recomputes it; a pass with n = 0
\* leaves lines, score, level and the timer unchanged.
C12_PassScoresAtOldLevel ==
  [][(last'.op = "check_lines")
       => LET n == Cardinality(FullRows(grid))
          IN IF n > 0
             THEN /\ lines' = lines + n
                  /\ score' = score + (<<10, 25, 75, 300>>)[n] * level
                  /\ ~raised'
             ELSE UNCHANGED <<lines, score, level, timers, raised>>]_vars

\* C12 witness: a pass has removed two rows and changed the level from 1 to 2; the
\* 25 points were counted once
C12_Witness ==
  /\ last.op = "check_lines"
  /\ Cardinality(FullRows(last.baked)) = 2
  /\ lines = LINES_PER_LEVEL + 1
  /\ level = 2
  /\ score = (LINES_PER_LEVEL - 1) * 10 + 25

\* C13: in every reachable state level = floor(lines / 10) + 1 and a pending tick
\* timer has the interval max(10 - level, 1) (tenths of a second); a line-clear whose
\* total crosses a multiple of 10 raises the level by exactly 1 and reschedules the
\* timer at the new interval; one that does not cross leaves the level and the
\* scheduled timer (as _down left it before the pass) untouched.
C13_LevelFollowsLines ==
  /\ [](/\ level = (lines \div 10) + 1
        /\ \A k \in 1..Len(timers) : timers[k] = Max(10 - level, 1))
  /\ [][(last'.op = "lock")
         => LET before == IF Collides(last'.baked, piece') THEN << >> ELSE timers
            IN IF (lines' \div 10) # (lines \div 10)
               THEN level' = level + 1 /\ timers' = <<Max(10 - level', 1)>>
               ELSE level' = level /\ timers' = before]_vars

\* C13 witness: play goes on at level 2 after the tenth line, the timer at 0.8 s
C13_Witness ==
  /\ last.op = "lock"
  /\ ~gameover
  /\ lines = LINES_PER_LEVEL
  /\ level = 2
  /\ timers = <<8>>

\* C14: at most one tick timer is ever pending: a reschedule cancels the previous
\* timer before it installs the new one, within the same handler.
C14_AtMostOneTimer == Len(timers) <= 1

\* C14 witness: the pass that cleared two lines at once has rescheduled the timer
C14_Witness ==
  /\ last.op = "lock"
  /\ lines = LINES_PER_LEVEL + 1
  /\ Cardinality(FullRows(last.baked)) = 2
  /\ Len(timers) = 1

\* C15: a line-clear pass removes between 0 and 4 rows, so SCORING is never indexed
\* out of range: no row of the grid is full when a handler starts, and the rows a lock
\* fills are rows the locked piece occupies, which are at most 4.
C15_AtMostFourRowsCleared ==
  /\ [](FullRows(grid) = {} /\ ~raised)
  /\ [][(last'.op = "lock")
         => /\ FullRows(last'.baked) \subseteq {l.row + 1 : l \in Occupied(piece)}
            /\ Cardinality({l.row : l \in Occupied(piece)}) <= 4
            /\ Cardinality(FullRows(last'.baked)) \in 0..4
            /\ Cardinality(FullRows(last'.baked)) < Len(SCORING)
            /\ lines' = lines + Cardinality(FullRows(last'.baked))]_vars

\* C15 witness: a lock has filled two rows at once and the pass has left no full row
C15_Witness ==
  /\ last.op = "lock"
  /\ Cardinality(FullRows(last.baked)) = 2
  /\ FullRows(grid) = {}
  /\ ~gameover
  /\ ~raised

\* ------------------------------------------------------------------ pieces
\* The six mutators of Piece on their own, without a validity check: every shape,
\* frame and anchor of Placements, runs of up to MaxRun calls of the same mutator.

Mutators ==
  {"Piece.rotate_right", "Piece.rotate_left", "Piece.move_right", "Piece.move_left",
   "Piece.move_down", "Piece.move_up"}

Call(op, p) ==
  CASE op = "Piece.rotate_right" -> rotate_right(p)
    [] op = "Piece.rotate_left" -> rotate_left(p)
    [] op = "Piece.move_right" -> move_right(p)
    [] op = "Piece.move_left" -> move_left(p)
    [] op = "Piece.move_down" -> move_down(p)
    [] op = "Piece.move_up" -> move_up(p)

InitPiece ==
  /\ grid = [r \in 1..ROWS |-> [c \in 1..COLUMNS |-> E]]
  /\ piece \in Placements
  /\ next_piece = random("I", START_LOCATION)
  /\ level = 1
  /\ lines = 0
  /\ score = 0
  /\ gameover = FALSE
  /\ timers = schedule(<< >>, interval(1))
  /\ raised = FALSE
  /\ start = StartObject
  /\ last = Did("init", FALSE)

\* A call of a mutator.  The history counts the calls of the same mutator in a row
\* (prev) and keeps the piece the run started from.
Mutator(op) ==
  /\ last.op = op => last.prev < MaxRun
  /\ piece' = Call(op, piece)
  /\ piece'.location.row \in (0 - Margin)..(ROWS + Margin - 1)
  /\ piece'.location.column \in (0 - Margin)..(COLUMNS + Margin - 1)
  /\ last' = [Did(op, FALSE) EXCEPT !.prev = IF last.op = op THEN last.prev + 1 ELSE 1,
                                    !.piece = IF last.op = op THEN last.piece ELSE piece]
  /\ UNCHANGED <<grid, next_piece, level, lines, score, gameover, timers, raised, start>>

NextPiece == \E op \in Mutators : Mutator(op)

SpecPiece == InitPiece /\ [][NextPiece]_vars

InversePairs ==
  {<<"Piece.rotate_right", "Piece.rotate_left">>, <<"Piece.rotate_left", "Piece.rotate_right">>,
   <<"Piece.move_right", "Piece.move_left">>, <<"Piece.move_left", "Piece.move_right">>,
   <<"Piece.move_down", "Piece.move_up">>, <<"Piece.move_up", "Piece.move_down">>}

\* C16: for every shape the rotation index lies in [0, frame count); rotate_right
\* applied as many times as the shape has frames returns the piece to its original
\* frame; rotate_left/rotate_right, move_left/move_right and move_down/move_up applied
\* one after the other, in either order, restore the same anchor and rotation index.
C16_MutatorsInvert ==
  /\ [](piece.position_index >= 0 /\ piece.position_index < Len(Positions[piece.shape]))
  /\ [][/\ (last'.op = "Piece.rotate_right" /\ last'.prev = Len(Positions[piece.shape]))
             => piece' = last'.piece
        /\ (last.op \in Mutators /\ last.prev = 1 /\ <<last.op, last'.op>> \in InversePairs)
             => piece' = last.piece]_vars

\* C16 witness: rotate_left has taken a four-frame piece from frame 0 to frame 3
C16_Witness ==
  /\ last.op = "Piece.rotate_left"
  /\ last.prev = 1
  /\ last.piece.position_index = 0
  /\ piece.position_index = 3

\* C17: every piece promoted to current starts at the spawn anchor
\* (ROWS - 2, COLUMNS \div 2 - 2) with rotation index 0 and has the shape that was
\* buffered as next piece; no command or tick applied to the current piece changes the
\* buffered next piece's shape, anchor or rotation, nor the value of START_LOCATION.
C17_SpawnAnchorNotShared ==
  /\ [](/\ start.location = Location(ROWS - 2, COLUMNS \div 2 - 2)
        /\ next_piece.location = Location(ROWS - 2, COLUMNS \div 2 - 2)
        /\ next_piece.position_index = 0
        /\ last.op \in {"init", "lock"}
             => /\ piece.location = Location(ROWS - 2, COLUMNS \div 2 - 2)
                /\ piece.position_index = 0)
  /\ [][/\ (last'.op = "lock") => piece'.shape = next_piece.shape
        /\ (last'.op \in CommandOps \cup {"fall"}) => next_piece' = next_piece]_vars

\* C17 witness: a promoted piece has been moved to the left over locked cells, the
\* next piece and START_LOCATION are where they were
C17_Witness ==
  /\ last.op = "left"
  /\ ~last.undone
  /\ piece.location.column < START_LOCATION.column
  /\ \E r \in 1..ROWS : \E c \in 1..COLUMNS : grid[r][c] = B
  /\ next_piece.location = START_LOCATION
  /\ start.location = START_LOCATION

\* C18: while the game-over flag is false the current piece is in a valid placement
\* after every handler: in the initial state, after every command, after every tick
\* that moves the piece down, and after every tick that locks, also when line-clear
\* has shifted rows down under the freshly spawned piece.
C18_PieceValidWhilePlaying == ~gameover => ~Collides(grid, piece)

\* C18 witness: a lock has cleared a line, locked cells are left on the board and the
\* new piece is valid over them
C18_Witness ==
  /\ ~gameover
  /\ last.op = "lock"
  /\ FullRows(last.baked) # {}
  /\ \E r \in 1..ROWS : \E c \in 1..COLUMNS : grid[r][c] = B
  /\ ~Collides(grid, piece)

\* C19: while a piece remains the current piece its anchor row never increases from
\* one handler to the next, whatever commands come in between; a tick that does not
\* lock lowers it by exactly one row, and the anchor row stays within ROWS - 2 (the
\* spawn row) and -2 (the lowest row a valid placement can have), ROWS + 1 values: so
\* a piece is locked at the latest by the (ROWS + 1)-th tick after it became current.
C19_AnchorRowNeverRises ==
  /\ [](/\ piece.location.row <= ROWS - 2
        /\ piece.location.row >= 0 - 2)
  /\ [][/\ (last'.op # "lock") => piece'.location.row <= piece.location.row
        /\ (last'.op = "fall") => piece'.location.row = piece.location.row - 1
        /\ (last'.op \in TickOps /\ piece.location.row = 0 - 2) => last'.op = "lock"]_vars

\* C19 witness: ROWS ticks have lowered a flat I piece from the spawn row to row -2,
\* where the next tick locks it
C19_Witness ==
  /\ last.op = "fall"
  /\ piece.shape = "I"
  /\ piece.position_index = 0
  /\ piece.location.row = 0 - 2
  /\ Collides(grid, Lowered(piece))

\* C20: no cell of a locked piece is lost while play goes on: on every locking tick
\* after which the game-over flag is still false, all the occupied locations of the
\* locked piece had row < ROWS and were set to BLOCK (a lock that drops a cell at
\* row >= ROWS ends the game on that tick, whatever the next shape is).
C20_NoCellLostWhilePlaying ==
  [][(last'.op = "lock" /\ ~gameover')
       => \A l \in Occupied(piece) :
            /\ l.row < ROWS
            /\ last'.baked[l.row + 1][l.column + 1] = B]_vars

====
